---- MODULE Spec2Model ----
(***************************************************************************)
(* Model of the contacts REST backend: the Auth service (token issue and   *)
(* verification, cache-backed identity resolution) of                      *)
(* src/services/auth.py, the user repository of src/repository/users.py    *)
(* and the contact repository of src/repository/contacts.py.               *)
(*                                                                         *)
(* Python values are modelled as follows.  A dict is a function whose      *)
(* DOMAIN is the set of its keys, so a missing key is a key outside the    *)
(* DOMAIN.  An Optional value is a sequence of length at most one: <<>> is *)
(* None and <<v>> is the value v.  Times are whole seconds since the epoch *)
(* (python-jose encodes iat and exp as whole seconds).                     *)
(***************************************************************************)
EXTENDS Integers, Sequences, FiniteSets, TLC

VARIABLES
    now,        \* datetime.utcnow(), in seconds
    ticks,      \* number of clock advances so far (bounds the run)
    bearer,     \* Optional token in flight: the string a client presents
    issuer,     \* which operation produced the bearer (history)
    nissued,    \* number of tokens issued so far (bounds the run)
    asked,      \* the Optional expires_delta the bearer was issued with
    users,      \* the users table of the store: a set of rows
    cache,      \* the redis instance Auth.r: key -> [val, exp]
    gcu,        \* Optional record of the last get_current_user call
    gcuPrev,    \* Optional record of the get_current_user call before it
    ref,        \* Optional record of the last decode_refresh_token call
    eml,        \* Optional record of the last get_email_from_token call
    pc,         \* per worker: where its get_current_user call stands
    call,       \* per worker: the locals of its get_current_user call
    contacts,   \* the contacts table of the store: a set of rows
    nextId,     \* the next primary key of the contacts table
    cres,       \* record of the last contact repository call
    limiter,    \* the rate limiter's counters: key -> [count, exp]
    rres,       \* record of the last request to a contacts route
    windows,    \* per rate key: the window a request falls in (history)
    nreq,       \* number of requests made to the contacts routes
    ures        \* record of the last user repository call

clockVars == <<now, ticks>>
tokenVars == <<bearer, issuer, nissued, asked>>
callVars == <<gcu, gcuPrev, ref, eml>>
workerVars == <<pc, call>>
contactVars == <<contacts, nextId, cres>>
routeVars == <<limiter, rres, windows, nreq>>
repoVars == <<ures>>

vars == <<now, ticks, bearer, issuer, nissued, asked, users, cache, gcu, gcuPrev, ref, eml,
          pc, call, contacts, nextId, cres, limiter, rres, windows, nreq, ures>>

----------------------------------------------------------------------------
(* Bounds of the model. *)
MaxTicks == 2
MaxIssued == 1
MaxContacts == 2
MaxRequests == 12

(* Program constants. *)
CACHE_TTL == 900
ACCESS_DEFAULT_MINUTES == 15
REFRESH_DEFAULT_DAYS == 7
EMAIL_TOKEN_DAYS == 7
HTTP_401_UNAUTHORIZED == 401
HTTP_422_UNPROCESSABLE_ENTITY == 422
RATE_TIMES == 10
RATE_SECONDS == 60

Minutes(m) == m * 60
Days(d) == d * 86400

(* The clock advances by one of these steps: one second short of the cache *)
(* TTL, the cache TTL (also the default access lifetime), or seven days.   *)
TickSteps == {CACHE_TTL - 1, CACHE_TTL, Days(REFRESH_DEFAULT_DAYS)}

(* Identity keys.  bob is registered with id 7, eve is not registered.     *)
Subjects == {"bob@example.com", "eve@example.com"}

(* expires_delta arguments tried: None, 0 and 1800 seconds. *)
Deltas == {<<>>, <<0>>, <<1800>>}

----------------------------------------------------------------------------
(* Python helpers *)

EmptyDict == [k \in {} |-> ""]

\* dict.update: the keys of e overwrite those of d
DictUpdate(d, e) ==
    [k \in (DOMAIN d) \cup (DOMAIN e) |-> IF k \in DOMAIN e THEN e[k] ELSE d[k]]

\* truth value of an Optional[float]: None and 0 are falsy
Truthy(opt) == opt # <<>> /\ opt[1] # 0

\* the data arguments tried: {"sub": e} for each subject, and {} (no sub)
DataSet == {[sub |-> e] : e \in Subjects} \cup {EmptyDict}

----------------------------------------------------------------------------
(* python-jose, as the service uses it *)

\* jwt.encode(claims, SECRET_KEY, ALGORITHM): the claims signed with the key
jwt_encode(claims) == [claims |-> claims, signed |-> TRUE]

\* a token whose signature does not verify under SECRET_KEY
Tampered(token) == [token EXCEPT !.signed = FALSE]

\* jwt_decode with the expiry check left out (verify_exp off)
jwt_decode_noexp(token, t) ==
    IF ~token.signed
    THEN [err |-> "JWTError", payload |-> EmptyDict]
    ELSE [err |-> "", payload |-> token.claims]

\* jwt.decode(token, SECRET_KEY, algorithms=[ALGORITHM]) at time t: the
\* signature is verified first, then exp (rejected when exp < now).
jwt_decode(token, t) ==
    IF ~token.signed
    THEN [err |-> "JWTError", payload |-> EmptyDict]
    ELSE IF "exp" \in DOMAIN token.claims /\ token.claims["exp"] < t
    THEN [err |-> "ExpiredSignatureError", payload |-> EmptyDict]
    ELSE [err |-> "", payload |-> token.claims]

----------------------------------------------------------------------------
(* Token issue: Auth.create_access_token, create_refresh_token,            *)
(* create_email_token.  t is datetime.utcnow().                            *)

AccessExpire(expires_delta, t) ==
    IF Truthy(expires_delta)
    THEN t + expires_delta[1]
    ELSE t + Minutes(ACCESS_DEFAULT_MINUTES)

\* create_access_token writing a scope the verifier does not expect
create_access_token_scope(data, expires_delta, t) ==
    jwt_encode(DictUpdate(data,
        [iat |-> t, exp |-> AccessExpire(expires_delta, t), scope |-> "access"]))

create_access_token(data, expires_delta, t) ==
    jwt_encode(DictUpdate(data,
        [iat |-> t, exp |-> AccessExpire(expires_delta, t), scope |-> "access_token"]))

RefreshExpire(expires_delta, t) ==
    IF Truthy(expires_delta)
    THEN t + expires_delta[1]
    ELSE t + Days(REFRESH_DEFAULT_DAYS)

create_refresh_token(data, expires_delta, t) ==
    jwt_encode(DictUpdate(data,
        [iat |-> t, exp |-> RefreshExpire(expires_delta, t), scope |-> "refresh_token"]))

create_email_token(data, t) ==
    jwt_encode(DictUpdate(data, [iat |-> t, exp |-> t + Days(EMAIL_TOKEN_DAYS)]))

----------------------------------------------------------------------------
(* Outcomes of a call: a returned value or a raised exception.  An        *)
(* HTTPException carries the status and detail of the response; for the    *)
(* other outcomes the service sets none (status_code 0, empty detail).     *)
(* cause names the check that failed.                                      *)

Returned(v) ==
    [raised |-> "", status_code |-> 0, detail |-> "",
     headers |-> "", cause |-> "", value |-> <<v>>]

HTTPException(code, detail, headers, cause) ==
    [raised |-> "HTTPException", status_code |-> code, detail |-> detail,
     headers |-> headers, cause |-> cause, value |-> <<>>]

\* payload[...] on a missing key: a KeyError, which is no JWTError and so
\* leaves the call uncaught
KeyError(key) ==
    [raised |-> "KeyError", status_code |-> 0, detail |-> "",
     headers |-> "", cause |-> key, value |-> <<>>]

credentials_exception(cause) ==
    HTTPException(HTTP_401_UNAUTHORIZED, "Could not validate credentials",
                  "WWW-Authenticate: Bearer", cause)

----------------------------------------------------------------------------
(* Token verification *)

decode_refresh_token(refresh_token, t) ==
    LET d == jwt_decode(refresh_token, t) IN
    IF d.err # ""
    THEN HTTPException(HTTP_401_UNAUTHORIZED, "Could not validate credentials", "", d.err)
    ELSE IF "scope" \notin DOMAIN d.payload THEN KeyError("scope")
    ELSE IF d.payload["scope"] = "refresh_token"
    THEN IF "sub" \notin DOMAIN d.payload THEN KeyError("sub")
         ELSE Returned(d.payload["sub"])
    ELSE HTTPException(HTTP_401_UNAUTHORIZED, "Invalid scope for token", "", "scope")

get_email_from_token(token, t) ==
    LET d == jwt_decode(token, t) IN
    IF d.err # ""
    THEN HTTPException(HTTP_422_UNPROCESSABLE_ENTITY,
                       "Invalid token for email verification", "", d.err)
    ELSE IF "sub" \notin DOMAIN d.payload THEN KeyError("sub")
    ELSE Returned(d.payload["sub"])

\* gcu_verify with the scope comparison left out
gcu_verify_anyscope(token, t) ==
    LET d == jwt_decode(token, t) IN
    IF d.err # "" THEN credentials_exception(d.err)
    ELSE IF "scope" \notin DOMAIN d.payload THEN KeyError("scope")
    ELSE IF "sub" \notin DOMAIN d.payload THEN KeyError("sub")
    ELSE Returned(d.payload["sub"])

\* the try block of get_current_user: the email, or the exception raised
gcu_verify(token, t) ==
    LET d == jwt_decode(token, t) IN
    IF d.err # "" THEN credentials_exception(d.err)
    ELSE IF "scope" \notin DOMAIN d.payload THEN KeyError("scope")
    ELSE IF d.payload["scope"] = "access_token"
    THEN IF "sub" \notin DOMAIN d.payload THEN KeyError("sub")
         ELSE Returned(d.payload["sub"])
    ELSE credentials_exception("scope")

----------------------------------------------------------------------------
(* The store: repository/users.py *)

User(id, email, confirmed) ==
    [id |-> id, email |-> email, refresh_token |-> <<>>, confirmed |-> confirmed]

\* get_user_by_email with a filter no row satisfies
get_user_by_email_none(email, db) == <<>>

\* get_user_by_email that finds only users holding a refresh token
get_user_by_email_loggedin(email, db) ==
    LET m == {u \in db : u.email = email /\ u.refresh_token # <<>>} IN
    IF m = {} THEN <<>> ELSE <<CHOOSE u \in m : \A v \in m : u.id <= v.id>>

\* db.query(User).filter(User.email == email).first()
get_user_by_email(email, db) ==
    LET m == {u \in db : u.email = email} IN
    IF m = {} THEN <<>> ELSE <<CHOOSE u \in m : \A v \in m : u.id <= v.id>>

\* update_token that writes only into an empty slot
update_token_first(user, token, db) ==
    [raised |-> "",
     db |-> {IF u.id = user.id /\ u.refresh_token = <<>>
             THEN [u EXCEPT !.refresh_token = token] ELSE u : u \in db}]

\* user.refresh_token = token; db.commit()
update_token(user, token, db) ==
    [raised |-> "",
     db |-> {IF u.id = user.id THEN [u EXCEPT !.refresh_token = token] ELSE u : u \in db}]

\* confirmed_email that flips the flag
confirmed_email_flip(email, db) ==
    [raised |-> "",
     db |-> {IF u.email = email THEN [u EXCEPT !.confirmed = ~u.confirmed] ELSE u : u \in db}]

\* user = get_user_by_email(email, db); user.confirmed = True; db.commit().
\* With no such user the assignment is made on None: an AttributeError
\* before anything is written.
confirmed_email(email, db) ==
    LET user == get_user_by_email(email, db) IN
    IF user = <<>>
    THEN [raised |-> "AttributeError", db |-> db]
    ELSE [raised |-> "",
          db |-> {IF u = user[1] THEN [u EXCEPT !.confirmed = TRUE] ELSE u : u \in db}]

----------------------------------------------------------------------------
(* The cache: the redis commands the service issues on Auth.r.  An entry   *)
(* is [val, exp, at]: the bytes stored, the Optional time at which the key *)
(* expires (<<>>: the key has no TTL) and the time of the SET (history).   *)

\* the key under another prefix
CacheKey_identity(email) == "identity:" \o email

CacheKey(email) == "user:" \o email

\* a key whose expiry time has come no longer exists
Live(e, t) == e.exp = <<>> \/ t < e.exp[1]

\* r_get reading a key nothing is stored under
r_get_miss(c, key, t) == <<>>

\* r.get(key): the value, or None
r_get(c, key, t) ==
    IF key \in DOMAIN c /\ Live(c[key], t) THEN <<c[key].val>> ELSE <<>>

\* r_set keeping the TTL of an existing key (SET ... KEEPTTL)
r_set_keepttl(c, key, val, t) ==
    [k \in (DOMAIN c) \cup {key} |->
        IF k = key
        THEN [val |-> val, exp |-> IF key \in DOMAIN c THEN c[key].exp ELSE <<>>, at |-> t]
        ELSE c[k]]

\* r.set(key, val): stores val and discards any TTL of the key
r_set(c, key, val, t) ==
    [k \in (DOMAIN c) \cup {key} |->
        IF k = key THEN [val |-> val, exp |-> <<>>, at |-> t] ELSE c[k]]

\* r.expire(key, seconds): sets the TTL of an existing key
r_expire(c, key, seconds, t) ==
    IF key \in DOMAIN c /\ Live(c[key], t)
    THEN [c EXCEPT ![key].exp = <<t + seconds>>]
    ELSE c

\* pickle.dumps(user): the bytes of a snapshot of the row
pickle_dumps(user) == [pickled |-> user]

\* pickle.loads(bytes): a copy of the pickled row
pickle_loads(bytes) == bytes.pickled

\* the cache entry under key, as an Optional
EntryOf(c, key, t) ==
    IF key \in DOMAIN c /\ Live(c[key], t) THEN <<c[key]>> ELSE <<>>

----------------------------------------------------------------------------------------------------------------------------------------
(* Auth.get_current_user(token, db) run as a whole at time t on cache c:   *)
(* the outcome, the cache it leaves and what it did on the way.            *)

\* whether token is presented at t after its exp claim (history)
Late(token, t) == "exp" \in DOMAIN token.claims /\ t > token.claims["exp"]

GcuRecord(token, t, out, c, email, hit, expired, reads, writes, lookups, found) ==
    [token |-> token, at |-> t, late |-> Late(token, t), out |-> out, cache |-> c,
     email |-> email, hit |-> hit, expired |-> expired,
     reads |-> reads, writes |-> writes, lookups |-> lookups, found |-> found,
     entry |-> IF email = <<>> THEN <<>> ELSE EntryOf(c, CacheKey(email[1]), t)]

\* a call whose try block looks the cache up before it raises
gcu_raise_afterget(token, t, v, c) ==
    GcuRecord(token, t, v, c, <<>>, FALSE, FALSE, 1, 0, 0, <<>>)

\* a call that leaves its try block by an exception: line 165 (the cache
\* get) and what follows are not reached
gcu_raise(token, t, v, c) ==
    GcuRecord(token, t, v, c, <<>>, FALSE, FALSE, 0, 0, 0, <<>>)

get_current_user(token, db, c, t) ==
    LET v == gcu_verify(token, t) IN
    IF v.raised # ""
    THEN gcu_raise(token, t, v, c)
    ELSE
        LET email == v.value[1]
            key == CacheKey(email)
            expired == key \in DOMAIN c /\ ~Live(c[key], t)
            cached == r_get(c, key, t)
        IN
        IF cached = <<>>
        THEN
            LET user == get_user_by_email(email, db) IN
            IF user = <<>>
            THEN GcuRecord(token, t, credentials_exception("not_found"), c, <<email>>,
                           FALSE, expired, 1, 0, 1, user)
            ELSE
                LET c1 == r_set(c, key, pickle_dumps(user[1]), t)
                    c2 == r_expire(c1, key, CACHE_TTL, t)
                IN GcuRecord(token, t, Returned(user[1]), c2, <<email>>,
                             FALSE, expired, 1, 2, 1, user)
        ELSE GcuRecord(token, t, Returned(pickle_loads(cached[1])), c, <<email>>,
                       TRUE, FALSE, 1, 0, 0, <<>>)

\* what is kept of a get_current_user call: all but the cache it left
CallOf(r) == [f \in (DOMAIN r) \ {"cache"} |-> r[f]]

\* what is kept of the call before the last: its token, the key it resolved,
\* its time, its store lookups and the cache entry it left
PrevOf(r) == [f \in {"token", "at", "email", "lookups", "entry"} |-> r[f]]

\* what is kept of a decode_refresh_token or get_email_from_token call
VerifyRecord(token, t, out) == [token |-> token, late |-> Late(token, t), out |-> out]

----------------------------------------------------------------------------
(* Initial state: the clock at 0, alice and bob registered, an empty       *)
(* cache, no call in progress, no contacts.                                *)

Workers == {1, 2}

IdleCall == [email |-> <<>>, user |-> <<>>, out |-> <<>>, at |-> 0]

NoContactCall ==
    [op |-> "", user_id |-> 0, contact_id |-> 0, body |-> <<>>,
     before |-> {}, returned |-> <<>>]

NoRouteCall ==
    [route |-> "", caller |-> "", nth |-> 0, out |-> <<>>,
     cache_ops |-> 0, store_reads |-> 0, store_writes |-> 0, untouched |-> TRUE]

NoUserCall ==
    [op |-> "", email |-> "", token |-> <<>>, raised |-> "", before |-> {},
     written |-> EmptyDict, at |-> 0]

Init ==
    /\ now = 0
    /\ ticks = 0
    /\ bearer = <<>>
    /\ issuer = ""
    /\ nissued = 0
    /\ asked = <<>>
    /\ users = {User(1, "alice@example.com", FALSE), User(7, "bob@example.com", TRUE)}
    /\ cache = EmptyDict
    /\ gcu = <<>>
    /\ gcuPrev = <<>>
    /\ ref = <<>>
    /\ eml = <<>>
    /\ pc = [w \in Workers |-> "idle"]
    /\ call = [w \in Workers |-> IdleCall]
    /\ contacts = {}
    /\ nextId = 1
    /\ cres = NoContactCall
    /\ limiter = EmptyDict
    /\ rres = NoRouteCall
    /\ windows = EmptyDict
    /\ nreq = 0
    /\ ures = NoUserCall

----------------------------------------------------------------------------
(* The token service with each handler run as a whole *)

\* a new bearer: the records of the calls made with the old one are dropped
Present(token, by, expires_delta) ==
    /\ bearer' = <<token>>
    /\ issuer' = by
    /\ asked' = expires_delta
    /\ gcu' = <<>>
    /\ gcuPrev' = <<>>
    /\ ref' = <<>>
    /\ eml' = <<>>

IssueAccess ==
    /\ nissued < MaxIssued
    /\ \E data \in DataSet, d \in Deltas :
          Present(create_access_token(data, d, now), "create_access_token", d)
    /\ nissued' = nissued + 1
    /\ UNCHANGED <<clockVars, users, cache, workerVars, contactVars, routeVars, repoVars>>

IssueRefresh ==
    /\ nissued < MaxIssued
    /\ \E data \in DataSet, d \in Deltas :
          Present(create_refresh_token(data, d, now), "create_refresh_token", d)
    /\ nissued' = nissued + 1
    /\ UNCHANGED <<clockVars, users, cache, workerVars, contactVars, routeVars, repoVars>>

IssueEmail ==
    /\ nissued < MaxIssued
    /\ \E data \in DataSet :
          Present(create_email_token(data, now), "create_email_token", <<>>)
    /\ nissued' = nissued + 1
    /\ UNCHANGED <<clockVars, users, cache, workerVars, contactVars, routeVars, repoVars>>

\* a client presents a token whose signature does not verify
Tamper ==
    /\ bearer # <<>>
    /\ bearer[1].signed
    /\ Present(Tampered(bearer[1]), issuer, asked)
    /\ UNCHANGED <<clockVars, nissued, users, cache, workerVars, contactVars, routeVars, repoVars>>

Tick ==
    /\ ticks < MaxTicks
    /\ \E d \in TickSteps : now' = now + d
    /\ ticks' = ticks + 1
    /\ UNCHANGED <<tokenVars, users, cache, callVars, workerVars, contactVars, routeVars, repoVars>>

GetCurrentUser ==
    /\ bearer # <<>>
    /\ LET r == get_current_user(bearer[1], users, cache, now) IN
          /\ cache' = r.cache
          /\ gcu' = <<CallOf(r)>>
          /\ gcuPrev' = IF gcu = <<>> THEN <<>> ELSE <<PrevOf(gcu[1])>>
    /\ UNCHANGED <<clockVars, tokenVars, users, ref, eml, workerVars, contactVars, routeVars, repoVars>>

DecodeRefreshToken ==
    /\ bearer # <<>>
    /\ ref' = <<VerifyRecord(bearer[1], now, decode_refresh_token(bearer[1], now))>>
    /\ UNCHANGED <<clockVars, tokenVars, users, cache, gcu, gcuPrev, eml,
                   workerVars, contactVars, routeVars, repoVars>>

GetEmailFromToken ==
    /\ bearer # <<>>
    /\ eml' = <<VerifyRecord(bearer[1], now, get_email_from_token(bearer[1], now))>>
    /\ UNCHANGED <<clockVars, tokenVars, users, cache, gcu, gcuPrev, ref,
                   workerVars, contactVars, routeVars, repoVars>>

Next ==
    \/ IssueAccess
    \/ IssueRefresh
    \/ IssueEmail
    \/ Tamper
    \/ Tick
    \/ GetCurrentUser
    \/ DecodeRefreshToken
    \/ GetEmailFromToken

Spec == Init /\ [][Next]_vars

----------------------------------------------------------------------------
(* Auth.get_current_user run by concurrent workers against the shared      *)
(* cache and store, one round trip at a time: the cache read (with the     *)
(* token verification before it, which touches nothing shared), the store  *)
(* lookup, the cache SET and the cache EXPIRE.                             *)

\* the call ends with outcome out
Finish(w, out) ==
    /\ pc' = [pc EXCEPT ![w] = "idle"]
    /\ call' = [call EXCEPT ![w].out = <<out>>]

\* lines 154-165 and 172-174: verify the token, read the cache
GcuBegin(w) ==
    /\ pc[w] = "idle"
    /\ bearer # <<>>
    /\ LET v == gcu_verify(bearer[1], now) IN
          IF v.raised # ""
          THEN /\ pc' = pc
               /\ call' = [call EXCEPT ![w] = [email |-> <<>>, user |-> <<>>, out |-> <<v>>, at |-> now]]
          ELSE
              LET email == v.value[1]
                  cached == r_get(cache, CacheKey(email), now)
              IN
              IF cached = <<>>
              THEN /\ pc' = [pc EXCEPT ![w] = "lookup"]
                   /\ call' = [call EXCEPT ![w] =
                                   [email |-> <<email>>, user |-> <<>>, out |-> <<>>,
                                    at |-> now]]
              ELSE /\ pc' = pc
                   /\ call' = [call EXCEPT ![w] =
                                   [email |-> <<email>>, user |-> <<>>,
                                    out |-> <<Returned(pickle_loads(cached[1]))>>,
                                    at |-> now]]
    /\ UNCHANGED <<clockVars, tokenVars, users, cache, callVars, contactVars, routeVars, repoVars>>

\* lines 167-169: ask the store
GcuLookup(w) ==
    /\ pc[w] = "lookup"
    /\ LET user == get_user_by_email(call[w].email[1], users) IN
          IF user = <<>>
          THEN Finish(w, credentials_exception("not_found"))
          ELSE /\ pc' = [pc EXCEPT ![w] = "set"]
               /\ call' = [call EXCEPT ![w].user = user]
    /\ UNCHANGED <<clockVars, tokenVars, users, cache, callVars, contactVars, routeVars, repoVars>>

\* line 170: SET the pickled row
GcuSet(w) ==
    /\ pc[w] = "set"
    /\ cache' = r_set(cache, CacheKey(call[w].email[1]), pickle_dumps(call[w].user[1]), now)
    /\ pc' = [pc EXCEPT ![w] = "expire"]
    /\ UNCHANGED <<clockVars, tokenVars, users, callVars, call, contactVars, routeVars, repoVars>>

\* lines 171 and 174: EXPIRE the key, return the row
GcuExpire(w) ==
    /\ pc[w] = "expire"
    /\ cache' = r_expire(cache, CacheKey(call[w].email[1]), CACHE_TTL, now)
    /\ Finish(w, Returned(call[w].user[1]))
    /\ UNCHANGED <<clockVars, tokenVars, users, callVars, contactVars, routeVars, repoVars>>

\* the call stops where it stands: the round trip it waits for fails, or
\* the worker is shut down
Stopped == [raised |-> "stopped", status_code |-> 0, detail |-> "",
            headers |-> "", cause |-> "stopped", value |-> <<>>]

GcuStop(w) ==
    /\ pc[w] # "idle"
    /\ Finish(w, Stopped)
    /\ UNCHANGED <<clockVars, tokenVars, users, cache, callVars, contactVars, routeVars, repoVars>>

NextSteps ==
    \/ IssueAccess
    \/ Tick
    \/ \E w \in Workers : GcuBegin(w)
    \/ \E w \in Workers : GcuLookup(w)
    \/ \E w \in Workers : GcuSet(w)
    \/ \E w \in Workers : GcuExpire(w)
    \/ \E w \in Workers : GcuStop(w)

SpecSteps == Init /\ [][NextSteps]_vars

----------------------------------------------------------------------------
(* The contact repository: repository/contacts.py.  db is the contacts     *)
(* table, a set of rows; each operation yields what it returns (a list, or *)
(* an Optional row) and the table it leaves.                               *)

Contact(id, body, user_id) ==
    [id |-> id, firstname |-> body.firstname, lastname |-> body.lastname,
     email |-> body.email, phone |-> body.phone, birthdate |-> body.birthdate,
     additional_data |-> body.additional_data, user_id |-> user_id]

\* the request bodies tried
Bodies ==
    {[firstname |-> "John", lastname |-> "Doe", email |-> "john.doe@example.com",
      phone |-> "1234567890", birthdate |-> "2000-01-01",
      additional_data |-> "2000-01-01"],
     [firstname |-> "Jane", lastname |-> "Roe", email |-> "jane.roe@example.com",
      phone |-> "0987654321", birthdate |-> "1999-12-31",
      additional_data |-> "friend"]}

\* the rows of a query in primary-key order
RECURSIVE Rows(_)
Rows(S) ==
    IF S = {} THEN <<>>
    ELSE LET first == CHOOSE c \in S : \A d \in S : c.id <= d.id
         IN <<first>> \o Rows(S \ {first})

\* first(): the Optional first row of a query
First(S) == IF S = {} THEN <<>> ELSE <<Rows(S)[1]>>

\* contact_query matching on the id alone
contact_query_anyowner(contact_id, user, db) ==
    First({c \in db : c.id = contact_id})

\* db.query(Contact).filter(and_(Contact.id == contact_id,
\*                              Contact.user_id == user.id)).first()
contact_query(contact_id, user, db) ==
    First({c \in db : c.id = contact_id /\ c.user_id = user.id})

\* .offset(skip).limit(limit).all()
OffsetLimit(rows, skip, limit) ==
    [i \in 1..(IF Len(rows) - skip < limit
                THEN (IF Len(rows) > skip THEN Len(rows) - skip ELSE 0)
                ELSE limit) |-> rows[skip + i]]

get_contacts(skip, limit, user, db) ==
    [returned |-> OffsetLimit(Rows({c \in db : c.user_id = user.id}), skip, limit),
     db |-> db]

get_contact(contact_id, user, db) ==
    [returned |-> contact_query(contact_id, user, db), db |-> db]

\* create_contact that stores the contact under no owner
create_contact_noowner(body, user, db, id) ==
    LET contact == Contact(id, body, 0) IN
    [returned |-> <<contact>>, db |-> db \cup {contact}]

create_contact(body, user, db, id) ==
    LET contact == Contact(id, body, user.id) IN
    [returned |-> <<contact>>, db |-> db \cup {contact}]

\* remove_contact that deletes by id whatever the query found
remove_contact_byid(contact_id, user, db) ==
    [returned |-> contact_query(contact_id, user, db),
     db |-> {c \in db : c.id # contact_id}]

remove_contact(contact_id, user, db) ==
    LET contact == contact_query(contact_id, user, db) IN
    [returned |-> contact,
     db |-> IF contact # <<>> THEN db \ {contact[1]} ELSE db]

\* update_contact that leaves the phone as it was
update_contact_nophone(contact_id, body, user, db) ==
    LET contact == contact_query(contact_id, user, db) IN
    IF contact # <<>>
    THEN LET updated == [Contact(contact[1].id, body, contact[1].user_id)
                            EXCEPT !.phone = contact[1].phone] IN
         [returned |-> <<updated>>, db |-> (db \ {contact[1]}) \cup {updated}]
    ELSE [returned |-> contact, db |-> db]

update_contact(contact_id, body, user, db) ==
    LET contact == contact_query(contact_id, user, db) IN
    IF contact # <<>>
    THEN LET updated == Contact(contact[1].id, body, contact[1].user_id) IN
         [returned |-> <<updated>>, db |-> (db \ {contact[1]}) \cup {updated}]
    ELSE [returned |-> contact, db |-> db]

\* the contact ids tried: those handed out so far and one never handed out
ContactIds == 1..nextId

\* the call op by user leaves table r.db and returns r.returned
ContactCall(op, user, contact_id, body, r) ==
    /\ contacts' = r.db
    /\ cres' = [op |-> op, user_id |-> user.id, contact_id |-> contact_id,
                body |-> body, before |-> contacts, returned |-> r.returned]

GetContacts ==
    /\ \E user \in users, skip \in {0, 1}, limit \in {1, 100} :
          ContactCall("get_contacts", user, 0, <<>>,
                      get_contacts(skip, limit, user, contacts))
    /\ UNCHANGED <<clockVars, tokenVars, users, cache, callVars, workerVars, nextId, routeVars, repoVars>>

GetContact ==
    /\ \E user \in users, contact_id \in ContactIds :
          ContactCall("get_contact", user, contact_id, <<>>,
                      get_contact(contact_id, user, contacts))
    /\ UNCHANGED <<clockVars, tokenVars, users, cache, callVars, workerVars, nextId, routeVars, repoVars>>

CreateContact ==
    /\ nextId <= MaxContacts
    /\ \E user \in users, body \in Bodies :
          ContactCall("create_contact", user, 0, <<body>>,
                      create_contact(body, user, contacts, nextId))
    /\ nextId' = nextId + 1
    /\ UNCHANGED <<clockVars, tokenVars, users, cache, callVars, workerVars, routeVars, repoVars>>

RemoveContact ==
    /\ \E user \in users, contact_id \in ContactIds :
          ContactCall("remove_contact", user, contact_id, <<>>,
                      remove_contact(contact_id, user, contacts))
    /\ UNCHANGED <<clockVars, tokenVars, users, cache, callVars, workerVars, nextId, routeVars, repoVars>>

UpdateContact ==
    /\ \E user \in users, contact_id \in ContactIds, body \in Bodies :
          ContactCall("update_contact", user, contact_id, <<body>>,
                      update_contact(contact_id, body, user, contacts))
    /\ UNCHANGED <<clockVars, tokenVars, users, cache, callVars, workerVars, nextId, routeVars, repoVars>>

NextContacts ==
    \/ GetContacts
    \/ GetContact
    \/ CreateContact
    \/ RemoveContact
    \/ UpdateContact

SpecContacts == Init /\ [][NextContacts]_vars

----------------------------------------------------------------------------
(* The rate-limited contacts routes: routes/contacts.py.  A request passes *)
(* the route's dependencies in order: the RateLimiter of the decorator,    *)
(* then auth_service.get_current_user, then the repository call.           *)

\* the callers tried: two client addresses, one of which also posts
Callers == {"10.0.0.1", "10.0.0.2"}
Posters == {"10.0.0.1"}

\* the limiter counts per caller and route
RateKey(caller, route) == caller \o ":" \o route

\* the count of a key whose window has not run out, else 0
RateCount(lim, key, t) ==
    IF key \in DOMAIN lim /\ t < lim[key].exp THEN lim[key].count ELSE 0

\* RateLimiter(times, seconds) on a request at time t: the first request of
\* a window stores count 1 expiring after `seconds`; later ones increment
\* it; a request that would exceed `times` is refused
RateLimiter(times, seconds, lim, key, t) ==
    LET current == RateCount(lim, key, t) IN
    IF current > 0
    THEN IF current + 1 > times
         THEN [ok |-> FALSE, limiter |-> lim]
         ELSE [ok |-> TRUE, limiter |-> [lim EXCEPT ![key].count = current + 1]]
    ELSE [ok |-> TRUE,
          limiter |-> [k \in (DOMAIN lim) \cup {key} |->
                         IF k = key THEN [count |-> 1, exp |-> t + seconds] ELSE lim[k]]]

\* the refusal of the limiter
RateLimited ==
    [raised |-> "HTTPException", status_code |-> 429, detail |-> "Too Many Requests",
     headers |-> "", cause |-> "rate", value |-> <<>>]

\* what a request did: the limiter, cache and table it leaves, its outcome
\* and its numbers of cache commands, store reads and store writes
RouteResult(lim, c, db, out, cache_ops, store_reads, store_writes) ==
    [limiter |-> lim, cache |-> c, db |-> db, out |-> out, cache_ops |-> cache_ops,
     store_reads |-> store_reads, store_writes |-> store_writes]

\* the dependencies of a limited route, in the order they are resolved:
\* the RateLimiter of the decorator, then get_current_user
Admission_authfirst(route, caller, token, lim, us, c, t) ==
    LET g == get_current_user(token, us, c, t)
        rl == RateLimiter(RATE_TIMES, RATE_SECONDS, lim, RateKey(caller, route), t)
    IN  [limiter |-> rl.limiter, cache |-> g.cache,
         out |-> IF rl.ok THEN g.out ELSE RateLimited,
         cache_ops |-> g.reads + g.writes, store_reads |-> g.lookups]

Admission(route, caller, token, lim, us, c, t) ==
    LET rl == RateLimiter(RATE_TIMES, RATE_SECONDS, lim, RateKey(caller, route), t) IN
    IF ~rl.ok
    THEN [limiter |-> rl.limiter, cache |-> c, out |-> RateLimited,
          cache_ops |-> 0, store_reads |-> 0]
    ELSE
        LET g == get_current_user(token, us, c, t) IN
        [limiter |-> rl.limiter, cache |-> g.cache, out |-> g.out,
         cache_ops |-> g.reads + g.writes, store_reads |-> g.lookups]

\* GET /contacts/
route_read_contacts(caller, skip, limit, token, lim, us, c, db, t) ==
    LET a == Admission("read_contacts", caller, token, lim, us, c, t) IN
    IF a.out.raised # ""
    THEN RouteResult(a.limiter, a.cache, db, a.out, a.cache_ops, a.store_reads, 0)
    ELSE
        LET r == get_contacts(skip, limit, a.out.value[1], db) IN
        RouteResult(a.limiter, a.cache, r.db, Returned(r.returned),
                    a.cache_ops, a.store_reads + 1, 0)

\* POST /contacts/
route_create_contact(caller, body, token, lim, us, c, db, t, id) ==
    LET a == Admission("create_contact", caller, token, lim, us, c, t) IN
    IF a.out.raised # ""
    THEN RouteResult(a.limiter, a.cache, db, a.out, a.cache_ops, a.store_reads, 0)
    ELSE
        LET r == create_contact(body, a.out.value[1], db, id) IN
        RouteResult(a.limiter, a.cache, r.db, Returned(r.returned),
                    a.cache_ops, a.store_reads, 1)

\* the window a request at time t falls in, and its place in it: a window
\* opens with the first request after the one before has run out and lasts
\* RATE_SECONDS
WindowOf(key, t) ==
    IF key \in DOMAIN windows /\ t < windows[key].start + RATE_SECONDS
    THEN [start |-> windows[key].start, n |-> windows[key].n + 1]
    ELSE [start |-> t, n |-> 1]

\* a request to route by caller, with outcome r
Request(route, caller, r) ==
    LET key == RateKey(caller, route)
        w == WindowOf(key, now)
    IN
    /\ nreq < MaxRequests
    /\ nreq' = nreq + 1
    /\ windows' = [k \in (DOMAIN windows) \cup {key} |->
                      IF k = key THEN w ELSE windows[k]]
    /\ limiter' = r.limiter
    /\ cache' = r.cache
    /\ contacts' = r.db
    /\ rres' = [route |-> route, caller |-> caller, nth |-> w.n,
                out |-> <<r.out>>, cache_ops |-> r.cache_ops,
                store_reads |-> r.store_reads, store_writes |-> r.store_writes,
                untouched |-> (r.cache = cache /\ r.db = contacts)]

\* the session the requests belong to opens: an access token with the
\* default lifetime, for a registered or an unregistered subject
Login ==
    /\ bearer = <<>>
    /\ \E e \in Subjects :
          Present(create_access_token([sub |-> e], <<>>, now), "create_access_token", <<>>)
    /\ UNCHANGED <<clockVars, nissued, users, cache, workerVars, contactVars,
                   routeVars, repoVars>>

\* the keys of the limiter that have not run out at time t: the key-value
\* service drops a key when its time to live is over
LiveKeys(lim, t) == [k \in {j \in DOMAIN lim : t < lim[j].exp} |-> lim[k]]

\* the clock between requests: a whole window
TickRoute ==
    /\ ticks < MaxTicks
    /\ now' = now + RATE_SECONDS
    /\ ticks' = ticks + 1
    /\ limiter' = LiveKeys(limiter, now')
    /\ windows' = [k \in {j \in DOMAIN windows : now' < windows[j].start + RATE_SECONDS}
                      |-> windows[k]]
    /\ UNCHANGED <<tokenVars, users, cache, callVars, workerVars, contactVars,
                   rres, nreq, repoVars>>

ReadContacts ==
    /\ bearer # <<>>
    /\ \E caller \in Callers :
          Request("read_contacts", caller,
                  route_read_contacts(caller, 0, 100, bearer[1], limiter, users,
                                      cache, contacts, now))
    /\ UNCHANGED <<clockVars, tokenVars, users, callVars, workerVars, nextId, cres,
                   repoVars>>

PostContact ==
    /\ bearer # <<>>
    /\ \E caller \in Posters :
          LET r == route_create_contact(caller, CHOOSE b \in Bodies : b.firstname = "John",
                                        bearer[1], limiter, users, cache, contacts,
                                        now, nextId)
          IN /\ Request("create_contact", caller, r)
             /\ nextId' = IF r.db = contacts THEN nextId ELSE nextId + 1
    /\ UNCHANGED <<clockVars, tokenVars, users, callVars, workerVars, cres, repoVars>>

NextRoutes ==
    \/ Login
    \/ TickRoute
    \/ ReadContacts
    \/ PostContact

SpecRoutes == Init /\ [][NextRoutes]_vars

----------------------------------------------------------------------------
(* The users repository: repository/users.py.  ures.written is history:   *)
(* for each user id, the last value update_token was called with.          *)

\* the values update_token is called with for a user: None, or a refresh
\* token issued for the user
TokenValues(user) ==
    {<<>>} \cup {<<create_refresh_token([sub |-> user.email], d, now)>> :
                   d \in {<<>>, <<1800>>}}

\* the emails confirmed_email is called with: of a user, or of nobody
Emails == {u.email : u \in users} \cup Subjects

UpdateToken ==
    \E user \in users : \E token \in TokenValues(user) :
        LET r == update_token(user, token, users) IN
        /\ users' = r.db
        /\ ures' = [op |-> "update_token", email |-> user.email, token |-> token,
                    raised |-> r.raised, before |-> users,
                    written |-> [i \in (DOMAIN ures.written) \cup {user.id} |->
                                   IF i = user.id THEN token ELSE ures.written[i]],
                    at |-> now]
        /\ UNCHANGED <<clockVars, tokenVars, cache, callVars, workerVars, contactVars,
                       routeVars>>

ConfirmedEmail ==
    \E email \in Emails :
        LET r == confirmed_email(email, users) IN
        /\ users' = r.db
        /\ ures' = [op |-> "confirmed_email", email |-> email, token |-> <<>>,
                    raised |-> r.raised, before |-> users, written |-> ures.written,
                    at |-> now]
        /\ UNCHANGED <<clockVars, tokenVars, cache, callVars, workerVars, contactVars,
                       routeVars>>

NextUsers ==
    \/ UpdateToken
    \/ ConfirmedEmail

SpecUsers == Init /\ [][NextUsers]_vars

----------------------------------------------------------------------------
(* The token service while update_token writes and clears the persisted   *)
(* refresh tokens.                                                         *)

\* the session opens: an access or a refresh token with the default
\* lifetime is issued for a registered user
OpenSession ==
    /\ bearer = <<>>
    /\ \E u \in users :
          \/ Present(create_access_token([sub |-> u.email], <<>>, now),
                     "create_access_token", <<>>)
          \/ Present(create_refresh_token([sub |-> u.email], <<>>, now),
                     "create_refresh_token", <<>>)
    /\ UNCHANGED <<clockVars, nissued, users, cache, workerVars, contactVars,
                   routeVars, repoVars>>

\* update_token for the user of the session: the slot is cleared, or a
\* refresh token issued now is written to it
UpdateSlot ==
    /\ bearer # <<>>
    /\ \E user \in {u \in users : u.email = bearer[1].claims["sub"]} :
       \E token \in {<<>>, <<create_refresh_token([sub |-> user.email], <<>>, now)>>} :
          LET r == update_token(user, token, users) IN
          /\ users' = r.db
          /\ ures' = [op |-> "update_token", email |-> user.email, token |-> token,
                      raised |-> r.raised, before |-> users,
                      written |-> [i \in (DOMAIN ures.written) \cup {user.id} |->
                                     IF i = user.id THEN token ELSE ures.written[i]],
                      at |-> now]
    /\ UNCHANGED <<clockVars, tokenVars, cache, callVars, workerVars, contactVars,
                   routeVars>>

NextSlot ==
    \/ OpenSession
    \/ Tick
    \/ UpdateSlot
    \/ GetCurrentUser
    \/ DecodeRefreshToken

SpecSlot == Init /\ [][NextSlot]_vars

----------------------------------------------------------------------------
(* get_current_user run by concurrent workers, one round trip at a time,   *)
(* while confirmed_email is called on the store.  call[w].at is the time   *)
(* the call of worker w was made, ures.at the time of the last commit.     *)

\* an access token that outlives a cache entry is issued for a registered
\* user
IssueFor ==
    /\ nissued < MaxIssued
    /\ \E u \in users :
          LET d == <<2 * CACHE_TTL>> IN
          Present(create_access_token([sub |-> u.email], d, now),
                  "create_access_token", d)
    /\ nissued' = nissued + 1
    /\ UNCHANGED <<clockVars, users, cache, workerVars, contactVars, routeVars, repoVars>>

NextStale ==
    \/ IssueFor
    \/ Tick
    \/ ConfirmedEmail
    \/ \E w \in Workers : GcuBegin(w)
    \/ \E w \in Workers : GcuLookup(w)
    \/ \E w \in Workers : GcuSet(w)
    \/ \E w \in Workers : GcuExpire(w)
    \/ \E w \in Workers : GcuStop(w)

SpecStale == Init /\ [][NextStale]_vars

----------------------------------------------------------------------------
(* Properties of the token service (checked under Spec) *)

\* the call got past token verification: an email was extracted
Verified(r) == r.email # <<>>

\* the rows of the store under an identity key
RowsOf(email) == {u \in users : u.email = email}

GenericDetail == "Could not validate credentials"

\* C1: scope isolation.  A token issued by create_refresh_token is rejected
\* by get_current_user; a token issued by create_access_token is rejected by
\* decode_refresh_token, with the scope mismatch when its signature verifies
\* and it is not expired; no token passes both checks.
C1_ScopeIsolation ==
    /\ (gcu # <<>> /\ issuer = "create_refresh_token") =>
          /\ ~Verified(gcu[1])
          /\ gcu[1].out.raised # ""
    /\ (ref # <<>> /\ issuer = "create_access_token") =>
          /\ ref[1].out.raised # ""
          /\ (ref[1].token.signed /\ ~ref[1].late) =>
                /\ ref[1].out.cause = "scope"
                /\ ref[1].out.status_code = HTTP_401_UNAUTHORIZED
    /\ (gcu # <<>> /\ ref # <<>> /\ gcu[1].token = ref[1].token) =>
          ~(Verified(gcu[1]) /\ ref[1].out.raised = "")

\* an access token that get_current_user resolved and decode_refresh_token
\* rejected for its scope
C1_Witness ==
    /\ gcu # <<>> /\ ref # <<>>
    /\ issuer = "create_access_token"
    /\ gcu[1].token = ref[1].token
    /\ gcu[1].out.raised = ""
    /\ ref[1].out.cause = "scope"

\* C2: access-token round trip.  A token create_access_token issued for the
\* key e, presented to get_current_user no later than its exp, yields e: the
\* cache and the store are asked for e and the identity returned is e's.
C2_AccessRoundTrip ==
    (/\ gcu # <<>>
     /\ issuer = "create_access_token"
     /\ gcu[1].token.signed
     /\ "sub" \in DOMAIN gcu[1].token.claims
     /\ gcu[1].at <= gcu[1].token.claims["exp"])
    =>
    LET e == gcu[1].token.claims["sub"] IN
        /\ gcu[1].email = <<e>>
        /\ gcu[1].found # <<>> => gcu[1].found[1].email = e
        /\ gcu[1].entry # <<>> => pickle_loads(gcu[1].entry[1].val).email = e
        /\ gcu[1].out.raised = "" => gcu[1].out.value[1].email = e
        /\ gcu[1].out.raised # "" => gcu[1].out.cause = "not_found"

\* an access token resolved some time after its issue, at its last second
C2_Witness ==
    /\ gcu # <<>>
    /\ issuer = "create_access_token"
    /\ gcu[1].token.signed
    /\ gcu[1].at = gcu[1].token.claims["exp"]
    /\ gcu[1].at > gcu[1].token.claims["iat"]
    /\ gcu[1].out.raised = ""
    /\ gcu[1].out.value[1].email = "bob@example.com"

\* the outcome of a verification of a token presented after its exp
RejectedAsExpired(r) ==
    r.late =>
        /\ r.out.raised = "HTTPException"
        /\ r.out.value = <<>>
        /\ r.token.signed => r.out.cause = "ExpiredSignatureError"

\* C3: expiry.  A token presented to get_current_user, decode_refresh_token
\* or get_email_from_token later than its exp is rejected, and with the
\* expiry failure when its signature verifies, whatever its scope.
C3_Expiry ==
    /\ gcu # <<>> => RejectedAsExpired(gcu[1])
    /\ ref # <<>> => RejectedAsExpired(ref[1])
    /\ eml # <<>> => RejectedAsExpired(eml[1])

\* a correctly signed token presented to all three verifiers after its exp
C3_Witness ==
    /\ gcu # <<>> /\ ref # <<>> /\ eml # <<>>
    /\ bearer[1].signed
    /\ gcu[1].late /\ ref[1].late /\ eml[1].late
    /\ eml[1].out.cause = "ExpiredSignatureError"

\* C4: a cache miss is not a missing identity.  A call that verified its
\* token and missed the cache asks the store once; it is rejected (401)
\* exactly when the store has no row for the key, and otherwise returns the
\* store's row and leaves it in the cache.
C4_MissIsNotAbsence ==
    (gcu # <<>> /\ Verified(gcu[1]) /\ ~gcu[1].hit)
    =>
    LET rows == RowsOf(gcu[1].email[1]) IN
        /\ gcu[1].lookups = 1
        /\ gcu[1].out.raised # "" <=> rows = {}
        /\ rows = {} =>
              /\ gcu[1].out.status_code = HTTP_401_UNAUTHORIZED
              /\ gcu[1].out.detail = GenericDetail
        /\ rows # {} =>
              /\ gcu[1].out.value[1] \in rows
              /\ gcu[1].entry # <<>>
              /\ pickle_loads(gcu[1].entry[1].val) = gcu[1].out.value[1]

\* a miss for bob, whom the store holds with id 7: returned and cached
C4_Witness ==
    /\ gcu # <<>>
    /\ Verified(gcu[1])
    /\ ~gcu[1].hit
    /\ gcu[1].out.raised = ""
    /\ gcu[1].out.value[1].id = 7
    /\ CacheKey("bob@example.com") \in DOMAIN cache

\* two get_current_user calls, one after the other, that both verified the
\* same token
TwoCalls ==
    /\ gcu # <<>> /\ gcuPrev # <<>>
    /\ gcu[1].token = gcuPrev[1].token
    /\ Verified(gcu[1]) /\ Verified(gcuPrev[1])

\* C5 as stated: two calls for the same valid access token, the second less
\* than the TTL after the first, perform at most one store lookup in total
\* and the second is a cache hit.
C5_Original ==
    (TwoCalls /\ gcu[1].at - gcuPrev[1].at < CACHE_TTL)
    =>
    /\ gcuPrev[1].lookups + gcu[1].lookups <= 1
    /\ gcu[1].hit

\* C5 as amended: when the store holds the identity of the token, the first
\* call leaves a cache entry with an expiry, and a second call made before
\* that expiry is a cache hit without a store lookup, so that the two calls
\* perform at most one store lookup in total.
C5_Amended ==
    (TwoCalls /\ RowsOf(gcu[1].email[1]) # {})
    =>
    /\ gcuPrev[1].entry # <<>>
    /\ gcuPrev[1].entry[1].exp # <<>>
    /\ gcu[1].at < gcuPrev[1].entry[1].exp[1] =>
          /\ gcu[1].hit
          /\ gcu[1].lookups = 0
          /\ gcuPrev[1].lookups + gcu[1].lookups <= 1

\* a miss that populated the cache, then a hit some time later
C5_Witness ==
    /\ TwoCalls
    /\ gcuPrev[1].lookups = 1
    /\ gcu[1].at > gcuPrev[1].at
    /\ gcu[1].hit

\* C6: after the TTL of a cache entry has elapsed with no refresh, the next
\* call for a still valid access token of that identity performs exactly
\* one store lookup, returns the store's row and leaves a fresh entry: the
\* row, written at the time of the call, expiring CACHE_TTL later.
C6_RepopulateAfterTTL ==
    (gcu # <<>> /\ Verified(gcu[1]) /\ gcu[1].expired)
    =>
    /\ gcu[1].lookups = 1
    /\ gcu[1].out.raised = ""
    /\ gcu[1].out.value[1] \in RowsOf(gcu[1].email[1])
    /\ gcu[1].entry # <<>>
    /\ gcu[1].entry[1].at = gcu[1].at
    /\ gcu[1].entry[1].exp = <<gcu[1].at + CACHE_TTL>>
    /\ pickle_loads(gcu[1].entry[1].val) = gcu[1].out.value[1]

\* a call that found an elapsed entry and wrote a fresh one
C6_Witness ==
    /\ gcu # <<>>
    /\ gcu[1].expired
    /\ gcu[1].out.raised = ""
    /\ gcu[1].entry # <<>>

\* C8: get_current_user has two outcomes for any bearer token: an identity
\* of the store, or the 401 rejection with the generic message.
C8_TwoOutcomes ==
    gcu # <<>> =>
        \/ /\ gcu[1].out.raised = ""
           /\ gcu[1].out.value[1] \in users
        \/ /\ gcu[1].out.raised = "HTTPException"
           /\ gcu[1].out.status_code = HTTP_401_UNAUTHORIZED
           /\ gcu[1].out.detail = GenericDetail

\* a verification failure: bad signature, expired, or scope mismatch
VerificationFailure(out) == out.cause \in {"JWTError", "ExpiredSignatureError", "scope"}

\* C9: every verification failure in get_current_user and in
\* decode_refresh_token surfaces as 401 with the one generic message.
C9_GenericRejection ==
    /\ (gcu # <<>> /\ VerificationFailure(gcu[1].out)) =>
          /\ gcu[1].out.status_code = HTTP_401_UNAUTHORIZED
          /\ gcu[1].out.detail = GenericDetail
    /\ (ref # <<>> /\ VerificationFailure(ref[1].out)) =>
          /\ ref[1].out.status_code = HTTP_401_UNAUTHORIZED
          /\ ref[1].out.detail = GenericDetail

\* the call was rejected at token verification: by the signature, the
\* expiry, the scope or a missing key, not by the store
RejectedAtVerification(out) == out.raised # "" /\ out.cause # "not_found"

\* C13: token verification has no side effects.  A step that makes a
\* decode_refresh_token or get_email_from_token call leaves the cache and
\* the store as they were, whatever the outcome; a step that makes a
\* get_current_user call rejected at token verification leaves them as they
\* were too, and the call made no cache read, no cache write and no store
\* lookup.
C13_VerificationPure ==
    [][ /\ (ref' # ref /\ ref' # <<>>) => UNCHANGED <<cache, users>>
        /\ (eml' # eml /\ eml' # <<>>) => UNCHANGED <<cache, users>>
        /\ (gcu' # gcu /\ gcu' # <<>> /\ RejectedAtVerification(gcu'[1].out)) =>
              /\ UNCHANGED <<cache, users>>
              /\ gcu'[1].reads = 0
              /\ gcu'[1].writes = 0
              /\ gcu'[1].lookups = 0 ]_vars

\* with an entry in the cache, a token is rejected at verification by
\* get_current_user and has been through both other verifiers
C13_Witness ==
    /\ gcu # <<>>
    /\ RejectedAtVerification(gcu[1].out)
    /\ ref # <<>>
    /\ eml # <<>>
    /\ cache # EmptyDict

\* the last get_current_user call missed the cache and the store returned
\* an identity
MissAndFound == gcu # <<>> /\ gcu[1].email # <<>> /\ ~gcu[1].hit /\ gcu[1].found # <<>>

\* the call returned the identity of the store and the cache holds, under
\* key, a live entry that deserializes to it
PopulatedUnder(key) ==
    /\ gcu[1].out = Returned(gcu[1].found[1])
    /\ key \in DOMAIN cache
    /\ Live(cache[key], gcu[1].at)
    /\ pickle_loads(cache[key].val) = gcu[1].out.value[1]

EmailKind(token) ==
    "scope" \in DOMAIN token.claims /\ token.claims["scope"] = "email-verify"

\* C15: email-verification tokens are a kind of their own.  A token issued
\* by create_email_token carries the scope "email-verify", and
\* get_email_from_token returns an email only for a token of that kind, so
\* an access or refresh token presented for confirmation is rejected.
C15_EmailTokenKind ==
    /\ (bearer # <<>> /\ issuer = "create_email_token" /\ bearer[1].signed) =>
          EmailKind(bearer[1])
    /\ (eml # <<>> /\ eml[1].out.raised = "") => EmailKind(eml[1].token)

\* the exp claim the bearer should carry: its iat plus the override it was
\* issued with, or plus the default lifetime when none was given
ExpectedExp(default) ==
    bearer[1].claims["iat"] + (IF asked = <<>> THEN default ELSE asked[1])

\* C20: a token issued by create_access_token or create_refresh_token with
\* an override of its lifetime, 0 included, expires that many seconds after
\* its issue; the default of 15 minutes, or of 7 days, is used only when no
\* override is given.
C20_TokenLifetime ==
    /\ (bearer # <<>> /\ issuer = "create_access_token") =>
          bearer[1].claims["exp"] = ExpectedExp(Minutes(ACCESS_DEFAULT_MINUTES))
    /\ (bearer # <<>> /\ issuer = "create_refresh_token") =>
          bearer[1].claims["exp"] = ExpectedExp(Days(REFRESH_DEFAULT_DAYS))

----------------------------------------------------------------------------
(* Properties of the cache under concurrent workers (checked under         *)
(* SpecSteps)                                                              *)

\* C7: in every reachable state every identity cache entry carries a TTL
\* of CACHE_TTL seconds counted from its write.
C7_EveryEntryHasTTL ==
    \A k \in DOMAIN cache : cache[k].exp = <<cache[k].at + CACHE_TTL>>

----------------------------------------------------------------------------
(* Properties of the contact repository (checked under SpecContacts)       *)

\* the contacts a call returned, as a set
ReturnedSet == {cres.returned[i] : i \in 1..Len(cres.returned)}

\* C10: ownership isolation.  Whatever calls came before, a call made with
\* user U returns only contacts whose user_id is U.id, and every contact of
\* another user is in the table after the call exactly as before it, also
\* when its id was passed.
C10_OwnershipIsolation ==
    cres.op # "" =>
        /\ \A c \in ReturnedSet : c.user_id = cres.user_id
        /\ {c \in contacts : c.user_id # cres.user_id}
              = {c \in cres.before : c.user_id # cres.user_id}

\* remove_contact or update_contact called with the id of a contact of
\* another user: nothing is returned and the contact is still there
C10_Witness ==
    /\ cres.op \in {"remove_contact", "update_contact"}
    /\ \E c \in cres.before : c.id = cres.contact_id /\ c.user_id # cres.user_id
    /\ cres.returned = <<>>
    /\ \E c \in contacts : c.id = cres.contact_id /\ c.user_id # cres.user_id

----------------------------------------------------------------------------
(* Properties of the rate-limited routes (checked under SpecRoutes)        *)

\* the request was refused by the limiter
IsRateLimited(out) == out.raised = "HTTPException" /\ out.status_code = 429

\* C11: on a rate-limited contacts route a caller's request is refused with
\* the rate-limit error exactly when it comes after RATE_TIMES requests of
\* the same caller to the same route in the current window of RATE_SECONDS
\* (so the 11th is refused), and a refused request ran no handler logic: no
\* cache command, no store read, no store write, cache and table as before.
C11_RateLimit ==
    rres.route # "" =>
        /\ IsRateLimited(rres.out[1]) <=> (rres.nth > RATE_TIMES)
        /\ IsRateLimited(rres.out[1]) =>
              /\ rres.store_reads = 0
              /\ rres.store_writes = 0
              /\ rres.cache_ops = 0
              /\ rres.untouched

\* the 11th post of a caller in one window is refused after ten posts that
\* each stored a contact, while another caller is still served
C11_Witness ==
    /\ rres.route = "create_contact"
    /\ rres.nth = RATE_TIMES + 1
    /\ IsRateLimited(rres.out[1])
    /\ Cardinality(contacts) = RATE_TIMES
    /\ \E k \in DOMAIN windows : windows[k].n <= RATE_TIMES

----------------------------------------------------------------------------
(* Properties of the users repository (checked under SpecUsers)            *)

\* the user of the store with the given email, as a set
UserOf(db, email) == {u \in db : u.email = email}

\* C12: the persisted refresh token is single-slot.  After any sequence of
\* calls every user update_token was called for holds exactly the last
\* value written (None clears the slot), and right after
\* update_token(user, t) the user's row differs from the row before in the
\* slot only and every other row is as before.
C12_SingleSlot ==
    /\ \A u \in users :
          u.id \in DOMAIN ures.written => u.refresh_token = ures.written[u.id]
    /\ ures.op = "update_token" =>
          /\ \A u \in UserOf(users, ures.email) : u.refresh_token = ures.token
          /\ {[u EXCEPT !.refresh_token = <<>>] : u \in users}
                = {[u EXCEPT !.refresh_token = <<>>] : u \in ures.before}
          /\ users \ UserOf(users, ures.email)
                = ures.before \ UserOf(ures.before, ures.email)

\* update_token(user, None) on a slot that held a token: the slot is empty
C12_Witness ==
    /\ ures.op = "update_token"
    /\ ures.token = <<>>
    /\ \E u \in UserOf(ures.before, ures.email) : u.refresh_token # <<>>
    /\ \A u \in UserOf(users, ures.email) : u.refresh_token = <<>>

----------------------------------------------------------------------------
(* Further properties of the contact repository (checked under             *)
(* SpecContacts)                                                           *)

\* the contacts of the table before the call that the call's user owns under
\* the id passed
Target == {c \in cres.before : c.id = cres.contact_id /\ c.user_id = cres.user_id}

\* the six data fields of a contact
DataFields == {"firstname", "lastname", "email", "phone", "birthdate", "additional_data"}

\* contact c carries the values of body in its six data fields
CarriesBody(c, body) == \A f \in DataFields : c[f] = body[f]

\* C16: get_contact, update_contact and remove_contact called with an id
\* under which the user has no contact return None, and the table is after
\* the call what it was before.
C16_NotFound ==
    (cres.op \in {"get_contact", "update_contact", "remove_contact"} /\ Target = {}) =>
        /\ cres.returned = <<>>
        /\ contacts = cres.before

\* remove_contact with an id under which another user has a contact, the
\* caller none: None is returned and the table is as before
C16_Witness ==
    /\ cres.op = "remove_contact"
    /\ Target = {}
    /\ \E c \in cres.before : c.id = cres.contact_id
    /\ cres.returned = <<>>
    /\ contacts = cres.before

\* C17: update_contact on a contact the user has returns that contact with
\* its six data fields equal to the body's; its id and owner are as before,
\* it is what the table holds under that id, and every other contact of the
\* table is unchanged.
C17_UpdateFound ==
    (cres.op = "update_contact" /\ Target # {}) =>
        /\ Len(cres.returned) = 1
        /\ CarriesBody(cres.returned[1], cres.body[1])
        /\ cres.returned[1].id = cres.contact_id
        /\ cres.returned[1].user_id = cres.user_id
        /\ {c \in contacts : c.id = cres.contact_id} = {cres.returned[1]}
        /\ {c \in contacts : c.id # cres.contact_id}
              = {c \in cres.before : c.id # cres.contact_id}

\* an update that changes the data of one contact while another is stored
C17_Witness ==
    /\ cres.op = "update_contact"
    /\ Target # {}
    /\ \A c \in Target : ~CarriesBody(c, cres.body[1])
    /\ \E c \in contacts : c.id # cres.contact_id
    /\ CarriesBody(cres.returned[1], cres.body[1])

\* C18: create_contact adds exactly one contact: the returned contact has
\* an id no contact had before, its six data fields equal the body's, its
\* user_id is the calling user's id, and the table after the call is the
\* table before it plus the returned contact.
C18_CreateAddsOne ==
    cres.op = "create_contact" =>
        /\ Len(cres.returned) = 1
        /\ "id" \in DOMAIN cres.returned[1]
        /\ \A c \in cres.before : c.id # cres.returned[1].id
        /\ CarriesBody(cres.returned[1], cres.body[1])
        /\ cres.returned[1].user_id = cres.user_id
        /\ contacts = cres.before \cup {cres.returned[1]}
        /\ Cardinality(contacts) = Cardinality(cres.before) + 1

\* a contact created by one user while the table holds a contact of another
C18_Witness ==
    /\ cres.op = "create_contact"
    /\ \E c \in cres.before : c.user_id # cres.user_id
    /\ cres.returned[1] \in contacts
    /\ cres.returned[1].user_id = cres.user_id
    /\ Cardinality(contacts) = Cardinality(cres.before) + 1

----------------------------------------------------------------------------
(* Further properties of the users repository (checked under SpecUsers)    *)

\* C19: confirmed_email(email) leaves the user with that email confirmed;
\* no other field of that user and no other user is changed, and the same
\* call made again leaves the store as it is.
C19_ConfirmedEmail ==
    ures.op = "confirmed_email" =>
        /\ \A u \in UserOf(users, ures.email) : u.confirmed
        /\ {[u EXCEPT !.confirmed = TRUE] : u \in UserOf(users, ures.email)}
              = {[u EXCEPT !.confirmed = TRUE] : u \in UserOf(ures.before, ures.email)}
        /\ users \ UserOf(users, ures.email)
              = ures.before \ UserOf(ures.before, ures.email)
        /\ confirmed_email(ures.email, users).db = users

\* a user that was not confirmed and held a refresh token is confirmed and
\* holds the same token
C19_Witness ==
    /\ ures.op = "confirmed_email"
    /\ \E u \in UserOf(ures.before, ures.email) :
          /\ ~u.confirmed
          /\ u.refresh_token # <<>>
          /\ [u EXCEPT !.confirmed = TRUE] \in users

----------------------------------------------------------------------------
(* Properties of get_current_user under concurrent workers and store       *)
(* mutations (checked under SpecStale)                                     *)

\* the call of worker w returned an identity
ReturnedUser(w) == call[w].out # <<>> /\ call[w].out[1].raised = ""

\* C21: bounded staleness.  confirmed_email leaves the cache alone, and
\* under any interleaving of get_current_user calls with it, every call
\* made more than CACHE_TTL seconds after the mutation was committed
\* returns the identity as the store holds it since.
C21_BoundedStaleness ==
    \A w \in Workers :
        (/\ ures.op = "confirmed_email"
         /\ ures.raised = ""
         /\ ReturnedUser(w)
         /\ call[w].at > ures.at + CACHE_TTL) =>
            call[w].out[1].value[1] \in users

----------------------------------------------------------------------------
(* Further properties of the cache under concurrent workers (checked under *)
(* SpecSteps)                                                              *)

\* no call is in progress
AllFinished == \A w \in Workers : pc[w] = "idle"

----------------------------------------------------------------------------
(* Properties of the token service under update_token (checked under       *)
(* SpecSlot)                                                               *)

\* token is correctly signed, carries the scope and an identity key, and is
\* presented no later than its exp claim
StillValid(token, late, scope) ==
    /\ token.signed
    /\ ~late
    /\ "scope" \in DOMAIN token.claims
    /\ token.claims["scope"] = scope
    /\ "sub" \in DOMAIN token.claims

\* C23: token acceptance does not depend on the persisted refresh-token
\* slot.  Whatever update_token calls were made, clearing the slot
\* included, decode_refresh_token returns the identity key of every
\* correctly signed, unexpired refresh token, and get_current_user returns
\* the identity of every correctly signed, unexpired access token whose
\* identity the store holds.
C23_SlotIndependent ==
    /\ (ref # <<>> /\ StillValid(ref[1].token, ref[1].late, "refresh_token")) =>
          ref[1].out = Returned(ref[1].token.claims["sub"])
    /\ (/\ gcu # <<>>
        /\ StillValid(gcu[1].token, gcu[1].late, "access_token")
        /\ RowsOf(gcu[1].token.claims["sub"]) # {}) =>
          /\ gcu[1].out.raised = ""
          /\ gcu[1].out.value[1].email = gcu[1].token.claims["sub"]

\* after the slot of its identity was written and then cleared, an access
\* token is accepted by a call that asked the store and got the identity
\* with the empty slot
C23_Witness ==
    /\ gcu # <<>>
    /\ gcu[1].lookups = 1
    /\ gcu[1].out.raised = ""
    /\ ures.op = "update_token"
    /\ ures.token = <<>>
    /\ ures.email = gcu[1].out.value[1].email
    /\ \E u \in UserOf(ures.before, ures.email) : u.refresh_token # <<>>
    /\ gcu[1].out.value[1].refresh_token = <<>>
    /\ gcu[1].at > ures.at

====
